---- MODULE Spec2Model ----
(***************************************************************************)
(* Verification model of bfab (src/bfab/__init__.py): the inventory cache  *)
(* (populate_instances / populate_lbs), the host matcher                   *)
(* (current_instance / instance_lbs), the load-balancer health wait loop   *)
(* (wait_in_lbs / wait_out_lbs / wait_xx_lbs) and the fabric tasks.        *)
(*                                                                         *)
(* Python strings are modelled as tuples of one-character strings, None as *)
(* the model value None, and a call that raises as a result record whose   *)
(* exc field names the exception.                                          *)
(***************************************************************************)
EXTENDS Integers, Sequences, FiniteSets, TLC

VARIABLES
    \* --- health predicates applied to one health-query result ---
    hstates,        \* the result sequence handed to the predicate
    hfn,            \* which predicate was applied: "none", "in_service", "out_of_service"
    hres,           \* what the predicate returned or raised
    \* --- the cloud provider and the fabric session ---
    provider,       \* the reservations the provider reports for the VPC, each
                    \* the non-empty list of its running instances
    host_string,    \* api.env.host_string
    \* --- the process-wide caches (api.env) ---
    env_instances,  \* api.env.instances: None or Some(list of instances)
    env_lbs,        \* api.env.lbs: None or Some(list of load balancers)
    env_hosts,      \* api.env.hosts
    \* --- the task being run ---
    pc,             \* "idle", "poll" (top of the while loop), "sleep", "raised"
    calls,          \* operations started in this invocation: helper calls,
                    \* host selections, waits and runs of a task that does not wait
    last,           \* the latest populate_instances call: its arguments
    cur,            \* what the latest current_instance call returned
    outcome,        \* how the latest operation ended
    \* --- wait_xx_lbs locals ---
    wfn,            \* the health predicate: "in_service" or "out_of_service"
    timeout,        \* the timeout argument
    lbs,            \* the list of load balancers still waited on
    et,             \* the deadline
    clock,          \* time.time()
    \* --- bookkeeping about what the code did ---
    instQueries,    \* get_all_instances calls issued
    lbQueries,      \* get_all_load_balancers calls issued
    polls,          \* passes of the list comprehension in this wait
    sleeps,         \* time.sleep calls in this wait
    polled,         \* health results of the latest pass, by load balancer
    satisfied,      \* load balancers that satisfied the predicate in this wait
    \* --- the latest task of the invocation ---
    task,           \* the task: "none", "svc_start", "svc_stop", ...
    tpc,            \* how many of the task's steps have been entered
    targ,           \* the raw skip and wait arguments the task was given
    cmds,           \* the commands the task issued with api.run, in order
    workers,        \* the worker names the task iterates over
    \* --- resolve_lb applied to one hint ---
    rhint,          \* the hint
    rres            \* what resolve_lb returned or raised

healthVars == <<hstates, hfn, hres>>

envVars == <<provider, host_string>>

cacheVars == <<env_instances, env_lbs, env_hosts>>

waitVars == <<wfn, timeout, lbs, et, clock, polls, sleeps, polled, satisfied>>

taskVars == <<task, tpc, targ, cmds, workers>>

resolveVars == <<rhint, rres>>

vars == <<hstates, hfn, hres, provider, host_string, env_instances, env_lbs,
          env_hosts, pc, calls, last, cur, outcome, wfn, timeout, lbs, et,
          clock, instQueries, lbQueries, polls, sleeps, polled, satisfied,
          task, tpc, targ, cmds, workers, rhint, rres>>

\* Python's None and a present value: an optional is a sequence of length 0 or 1
None == <<>>

Some(v) == <<v>>

----------------------------------------------------------------------------
(* Bounds *)

\* longest health-query result handed to a predicate
MaxStates == 3

\* longest host string the matcher is applied to
MaxHostLen == 2

\* longest cached instance list the matcher is applied to
MaxInstances == 2

\* operations (tasks, helper calls and waits) started in one invocation
MaxCalls == 2

\* the timeouts tried are the multiples of the poll interval up to this many
MaxTimeoutPolls == 2

\* longest load balancer name and hint, and most load balancers, tried by SpecResolve
MaxNameLen == 2

MaxLbs == 2

----------------------------------------------------------------------------
(* ctx *)

WAIT_DEFAULT_TIMEOUT_SECS == 60

WAIT_POLL_FREQ_SECS == 5

AWS_ENVIRONMENT_TAG == "ChefEnvironment"

AWS_DISABLED_TAG == "Disabled"

----------------------------------------------------------------------------
(* Python values *)

\* a call that returned v
Return(v) == [exc |-> "none", value |-> v]

\* a call that raised exception e
Raise(e) == [exc |-> e, value |-> FALSE]

\* the values of InstanceState.state ('Unknown' stands for any other state)
HealthStates == {"InService", "OutOfService", "Unknown"}

\* all sequences over S of length at most n
RECURSIVE SeqsUpTo(_, _)
SeqsUpTo(S, n) ==
    IF n = 0 THEN {<<>>}
    ELSE LET shorter == SeqsUpTo(S, n - 1)
         IN  shorter \cup {Append(s, x) : s \in {t \in shorter : Len(t) = n - 1}, x \in S}

----------------------------------------------------------------------------
(* Python str methods on tuples of characters *)

\* s.startswith(prefix)
startswith(s, prefix) ==
    /\ Len(prefix) <= Len(s)
    /\ SubSeq(s, 1, Len(prefix)) = prefix

\* sub in s
contains(s, sub) ==
    \E k \in 0..(Len(s) - Len(sub)) : SubSeq(s, k + 1, k + Len(sub)) = sub

\* s.replace(old, new) for one-character old and new
replace(s, old, new) ==
    [k \in 1..Len(s) |-> IF s[k] = old THEN new ELSE s[k]]

----------------------------------------------------------------------------
(* boto objects *)

\* a tag mapping: each key is absent (None) or carries a value
Tags(name, disabled, environment) ==
    [Name |-> name, Disabled |-> disabled, ChefEnvironment |-> environment]

\* boto.ec2.networkinterface.NetworkInterface
Interface(address) == [private_ip_address |-> address]

\* boto.ec2.instance.Instance
Instance(id, tags, address, subnet, interfaces) ==
    [id |-> id, tags |-> tags, private_ip_address |-> address, subnet_id |-> subnet,
     interfaces |-> interfaces]

\* boto.ec2.elb.LoadBalancer; instances is None or Some(list of instance ids)
LoadBalancer(name, members) == [name |-> name, instances |-> members]

\* the elements of a list
Elems(list) == {list[k] : k \in 1..Len(list)}

----------------------------------------------------------------------------
(* wait_in_lbs.in_service and wait_out_lbs.out_of_service *)

\* `not states and states[0].state == 'InService'`: a non-empty list makes
\* `not states` False and `and` returns it; an empty list makes it True and
\* the right operand indexes the empty list
in_service(states) ==
    IF Len(states) # 0
    THEN Return(FALSE)
    ELSE Raise("IndexError")

\* out_of_service with `and` in place of `or`
out_of_service_and(states) ==
    IF Len(states) = 0
    THEN Raise("IndexError")
    ELSE Return(FALSE)

\* `not states or states[0].state == 'OutOfService'`
out_of_service(states) ==
    IF Len(states) = 0
    THEN Return(TRUE)
    ELSE Return(states[1] = "OutOfService")

\* the predicate named fn
health(fn, states) ==
    IF fn = "in_service" THEN in_service(states) ELSE out_of_service(states)

----------------------------------------------------------------------------
(* aws helpers: populate_instances, populate_lbs, resolve_lb, instance_lbs *)

\* cxn.get_all_instances(filters=remote_filter): the running instances of the
\* VPC that carry every tag of the filter (`if tags: remote_filter.update(tags)`)
get_all_instances(tags) ==
    LET matching(r) ==
            SelectSeq(r, LAMBDA i : \A k \in DOMAIN tags :
                                       tags[k] = None \/ i.tags[k] = tags[k])
        kept == SelectSeq(provider, LAMBDA r : matching(r) # <<>>)
    IN  [k \in 1..Len(kept) |-> matching(kept[k])]

\* populate_instances.local_filter; exclude_disabled is not read
local_filter(instance, lb, exclude_disabled, subenets) ==
    IF subenets # <<>> /\ instance.subnet_id \notin Elems(subenets)
    THEN FALSE
    ELSE IF instance.tags[AWS_DISABLED_TAG] # None
    THEN FALSE
    ELSE IF lb # None
    THEN \E m \in Elems(lb[1].instances[1]) : instance.id = m
    ELSE TRUE

\* `if api.env.instances:` is true for a non-empty list only
instances_cached(cache) == cache # None /\ cache[1] # <<>>

\* the list populate_instances returns and stores in api.env.instances
populate_instances(cache, tags, lb, exclude_disabled, subenets) ==
    IF instances_cached(cache)
    THEN cache[1]
    ELSE LET reservations == get_all_instances(tags)
             firsts == [k \in 1..Len(reservations) |-> reservations[k][1]]
         IN  SelectSeq(firsts,
                       LAMBDA i : local_filter(i, lb, exclude_disabled, subenets))

\* cxn.get_all_load_balancers()
ProviderLbs ==
    << LoadBalancer(<<"a">>, Some(<<"i-1", "i-2">>)),
       LoadBalancer(<<"a", "b">>, Some(<<"i-1">>)),
       LoadBalancer(<<"c">>, None) >>

\* `if api.env.lbs is not None:`
lbs_cached(cache) == cache # None

\* the list populate_lbs returns and stores in api.env.lbs
populate_lbs(cache) ==
    IF lbs_cached(cache)
    THEN cache[1]
    ELSE SelectSeq(ProviderLbs, LAMBDA lb : lb.instances # None)

\* resolve_lb accepting the first load balancer whose name starts with the hint
resolve_lb_prefix(cached_lbs, hint) ==
    IF \E k \in 1..Len(cached_lbs) : startswith(cached_lbs[k].name, hint)
    THEN Return(Some(cached_lbs[CHOOSE k \in 1..Len(cached_lbs) :
                                    /\ startswith(cached_lbs[k].name, hint)
                                    /\ \A j \in 1..(k - 1) :
                                           ~startswith(cached_lbs[j].name, hint)]))
    ELSE Raise("ValueError")

\* resolve_lb(hint) over api.env.lbs: the load balancer of that name, or ValueError
resolve_lb(cached_lbs, hint) ==
    IF \E k \in 1..Len(cached_lbs) : cached_lbs[k].name = hint
    THEN Return(Some(cached_lbs[CHOOSE k \in 1..Len(cached_lbs) :
                                    /\ cached_lbs[k].name = hint
                                    /\ \A j \in (k + 1)..Len(cached_lbs) :
                                           cached_lbs[j].name # hint]))
    ELSE Raise("ValueError")

\* instance_lbs(instance) over api.env.lbs
instance_lbs(cached_lbs, instance) ==
    SelectSeq(cached_lbs, LAMBDA lb : \E m \in Elems(lb.instances[1]) : instance.id = m)

----------------------------------------------------------------------------
(* current_instance *)

\* the tests with the receiver and the argument of startswith exchanged
instance_matches_swapped(i, host) ==
    \/ i.tags.Name # None /\ startswith(host, i.tags.Name[1])
    \/ startswith(host, i.private_ip_address)
    \/ contains(host, replace(i.private_ip_address, ".", "-"))

\* the three tests of the for loop body, for one instance
instance_matches(i, host) ==
    \/ i.tags.Name # None /\ startswith(i.tags.Name[1], host)
    \/ startswith(i.private_ip_address, host)
    \/ contains(host, replace(i.private_ip_address, ".", "-"))

\* the for ... else over api.env.instances: the first instance that breaks
\* out of the loop, or None
current_instance(instances, host) ==
    IF \E k \in 1..Len(instances) : instance_matches(instances[k], host)
    THEN Some(instances[CHOOSE k \in 1..Len(instances) :
                            /\ instance_matches(instances[k], host)
                            /\ \A j \in 1..(k - 1) : ~instance_matches(instances[j], host)])
    ELSE None

----------------------------------------------------------------------------
(* Specification of the health predicates: a result is drawn, then one of  *)
(* the predicates is applied to it.                                         *)

\* no populate_instances call yet
NoCall ==
    [called |-> FALSE, tags |-> Tags(None, None, None), lb |-> None,
     exclude_disabled |-> TRUE, subenets |-> <<>>]

\* the health predicates have not been applied
HealthIdle ==
    /\ hstates = <<>>
    /\ hfn = "none"
    /\ hres = Return(FALSE)

\* module import: api.env.instances = None, api.env.lbs = None, no task run
SessionIdle ==
    /\ env_instances = None
    /\ env_lbs = None
    /\ env_hosts = <<>>
    /\ pc = "idle"
    /\ calls = 0
    /\ last = NoCall
    /\ cur = None
    /\ outcome = "none"
    /\ instQueries = 0
    /\ lbQueries = 0

\* no wait loop entered
WaitIdle ==
    /\ wfn = "none"
    /\ timeout = 0
    /\ lbs = <<>>
    /\ et = 0
    /\ clock = 0
    /\ polls = 0
    /\ sleeps = 0
    /\ polled = <<>>
    /\ satisfied = {}

\* no service or worker task invoked
TaskIdle ==
    /\ task = "none"
    /\ tpc = 0
    /\ targ = [skip |-> "", wait |-> ""]
    /\ cmds = <<>>
    /\ workers = <<>>

\* resolve_lb not applied
ResolveIdle ==
    /\ rhint = <<>>
    /\ rres = [exc |-> "none", lb |-> None]

HealthInit ==
    /\ hstates \in SeqsUpTo(HealthStates, MaxStates)
    /\ hfn = "none"
    /\ hres = Return(FALSE)
    /\ provider = <<>>
    /\ host_string = <<>>
    /\ SessionIdle
    /\ WaitIdle
    /\ TaskIdle
    /\ ResolveIdle

ApplyInService ==
    /\ hfn = "none"
    /\ hfn' = "in_service"
    /\ hres' = in_service(hstates)
    /\ UNCHANGED <<hstates, envVars, cacheVars, waitVars>>
    /\ UNCHANGED <<pc, calls, last, cur, outcome, instQueries, lbQueries>>
    /\ UNCHANGED <<taskVars, resolveVars>>

ApplyOutOfService ==
    /\ hfn = "none"
    /\ hfn' = "out_of_service"
    /\ hres' = out_of_service(hstates)
    /\ UNCHANGED <<hstates, envVars, cacheVars, waitVars>>
    /\ UNCHANGED <<pc, calls, last, cur, outcome, instQueries, lbQueries>>
    /\ UNCHANGED <<taskVars, resolveVars>>

HealthNext == ApplyInService \/ ApplyOutOfService

SpecHealth == HealthInit /\ [][HealthNext]_vars

----------------------------------------------------------------------------
(* Specification of the matcher: a cached instance list and a host string  *)
(* are drawn, then the scan of current_instance is applied to them.        *)

\* the characters host strings, Name tags and addresses are built from
Chars == {".", "-"}

InstanceIds == <<"i-1", "i-2", "i-3", "i-4">>

\* the Name tags tried: no tag, or one of these values
MatchNames ==
    {None, Some(<<".">>), Some(<<"-">>), Some(<<".", "-">>), Some(<<"-", ".">>),
     Some(<<"-", "-">>)}

\* the private addresses tried
MatchAddresses == {<<".">>, <<"-">>, <<".", "-">>, <<"-", ".">>}

\* the Name tag (or its absence) and private address of one cached instance
MatchFields == [name : MatchNames, address : MatchAddresses]

\* the cached instance lists the matcher is applied to
MatchLists ==
    UNION { { [k \in 1..n |-> Instance(InstanceIds[k], Tags(f[k].name, None, None),
                                       f[k].address, "s1",
                                       <<Interface(f[k].address)>>)] :
              f \in [1..n -> MatchFields] } : n \in 0..MaxInstances }

MatchInit ==
    /\ HealthIdle
    /\ \E list \in MatchLists :
          /\ provider = [k \in 1..Len(list) |-> <<list[k]>>]
          /\ env_instances = Some(list)
    /\ host_string \in SeqsUpTo(Chars, MaxHostLen) \ {<<>>}
    /\ env_lbs = Some(<<>>)
    /\ env_hosts = <<>>
    /\ pc = "idle"
    /\ calls = 0
    /\ last = NoCall
    /\ cur = None
    /\ outcome = "none"
    /\ instQueries = 1
    /\ lbQueries = 1
    /\ WaitIdle
    /\ TaskIdle
    /\ ResolveIdle

\* lines 570-580 applied to the cached list
ApplyCurrentInstance ==
    /\ outcome = "none"
    /\ cur' = current_instance(env_instances[1], host_string)
    /\ outcome' = "returned"
    /\ UNCHANGED <<healthVars, envVars, cacheVars, waitVars>>
    /\ UNCHANGED <<pc, calls, last, instQueries, lbQueries>>
    /\ UNCHANGED <<taskVars, resolveVars>>

MatchNext == ApplyCurrentInstance

SpecMatch == MatchInit /\ [][MatchNext]_vars

----------------------------------------------------------------------------
(* Specification of one fab invocation: the provider's inventory and the   *)
(* session's host string are drawn; then tasks and helpers run one after   *)
(* the other against the api.env caches, and a wait loop polls and sleeps  *)
(* until it returns or raises.                                             *)

Subnets == {"s1", "s2"}

\* the two running instances of the VPC: i-1 in subnet s1, whose first
\* network interface is not the one of its private address, and i-2 in a
\* drawn subnet; each with or without the Disabled tag
ProviderInstance1(disabled) ==
    Instance("i-1", Tags(Some(<<"w", "1">>), disabled, Some("test")),
             <<"1", ".", "2">>, "s1",
             <<Interface(<<"9", ".", "9">>), Interface(<<"1", ".", "2">>)>>)

ProviderInstance2(subnet, disabled, interfaces) ==
    Instance("i-2", Tags(None, disabled, Some("prod")),
             <<"1", ".", "3">>, subnet, interfaces)

\* the network interfaces of i-2 when it reports one
OneInterface == <<Interface(<<"1", ".", "3">>)>>

\* the reservations reported: one per instance, with i-2 in either subnet or
\* disabled; both instances launched by one request, in either order; i-2
\* reporting no network interface
ProviderChoices ==
    { << <<ProviderInstance1(None)>>, <<ProviderInstance2(s2, None, OneInterface)>> >> :
        s2 \in Subnets }
    \cup
    { << <<ProviderInstance1(None)>>, <<ProviderInstance2("s2", Some("1"), OneInterface)>> >>,
      << <<ProviderInstance1(None), ProviderInstance2("s2", None, OneInterface)>> >>,
      << <<ProviderInstance2("s2", None, OneInterface), ProviderInstance1(None)>> >>,
      << <<ProviderInstance1(None)>>, <<ProviderInstance2("s2", None, <<>>)>> >> }

\* the characters of load balancer names and hints
NameChars == {"a", "b"}

LbNames == SeqsUpTo(NameChars, MaxNameLen) \ {<<>>}

\* cached lists of load balancers; the k-th one has the k-th instance as member
LbLists ==
    UNION { { [k \in 1..n |-> LoadBalancer(f[k], Some(<<InstanceIds[k]>>))] :
              f \in [1..n -> LbNames] } : n \in 0..MaxLbs }

\* api.env.lbs has been filled and resolve_lb is about to be called with a hint
ResolveInit ==
    /\ HealthIdle
    /\ provider = <<>>
    /\ host_string = <<>>
    /\ env_instances = None
    /\ env_lbs \in {Some(l) : l \in LbLists}
    /\ env_hosts = <<>>
    /\ pc = "idle"
    /\ calls = 0
    /\ last = NoCall
    /\ cur = None
    /\ outcome = "none"
    /\ instQueries = 0
    /\ lbQueries = 1
    /\ WaitIdle
    /\ TaskIdle
    /\ rhint \in SeqsUpTo(NameChars, MaxNameLen)
    /\ rres = [exc |-> "none", lb |-> None]

\* resolve_lb(rhint)
ApplyResolveLb ==
    /\ outcome = "none"
    /\ LET r == resolve_lb(env_lbs[1], rhint)
       IN  /\ rres' = [exc |-> r.exc, lb |-> IF r.exc = "none" THEN r.value ELSE None]
           /\ outcome' = IF r.exc = "none" THEN "returned" ELSE r.exc
    /\ UNCHANGED <<healthVars, envVars, cacheVars, waitVars, taskVars, rhint>>
    /\ UNCHANGED <<pc, calls, last, cur, instQueries, lbQueries>>

ResolveNext == ApplyResolveLb

SpecResolve == ResolveInit /\ [][ResolveNext]_vars

\* host strings: a prefix of the Name tag of i-1, a host name that embeds the
\* dashed address of i-2, and a host nothing matches
Hosts ==
    { <<"w">>, <<"x", "1", "-", "3">>, <<"z">> }

\* the locals of an earlier wait_xx_lbs call are gone when the next operation
\* starts; the clock keeps its reading
WaitLocalsGone ==
    /\ wfn' = "none"
    /\ timeout' = 0
    /\ lbs' = <<>>
    /\ et' = 0
    /\ polls' = 0
    /\ sleeps' = 0
    /\ polled' = <<>>
    /\ satisfied' = {}
    /\ UNCHANGED clock

\* the arguments tried
TagArgs == {Tags(None, None, None), Tags(None, None, Some("test")), Tags(None, None, Some("prod"))}

EnvArgs == {None, Some("test"), Some("prod")}

SubnetArgs == {<<>>, <<"s1">>, <<"s2">>, <<"s1", "s2">>}

LbArgs == {None} \cup {Some(lb) : lb \in Elems(populate_lbs(None))}

HintArgs == {None, Some(<<"a">>), Some(<<"a", "b">>), Some(<<"b">>), Some(<<"c">>)}

\* the timeouts tried: multiples of the poll interval, and one that is not
Timeouts == {k * WAIT_POLL_FREQ_SECS : k \in 0..MaxTimeoutPolls} \cup {3}

\* lb.get_instance_health([instance.id]): no entry or one entry for the one id
PollResults == {<<>>, <<"InService">>, <<"OutOfService">>}

\* seconds that pass on the clock during one pass over the load balancers
PollSecs == {0, 5}

Init ==
    /\ HealthIdle
    /\ provider \in ProviderChoices
    /\ host_string \in Hosts
    /\ SessionIdle
    /\ WaitIdle
    /\ TaskIdle
    /\ ResolveIdle

\* the effect of populate_instances(tags, lb, exclude_disabled, subenets) on api.env
PopulateInstances(tags, lb, exclude_disabled, subenets) ==
    /\ env_instances' =
           Some(populate_instances(env_instances, tags, lb, exclude_disabled, subenets))
    /\ instQueries' = instQueries + (IF instances_cached(env_instances) THEN 0 ELSE 1)
    /\ last' = [called |-> TRUE, tags |-> tags, lb |-> lb,
                exclude_disabled |-> exclude_disabled, subenets |-> subenets]

\* the effect of populate_lbs() on api.env
PopulateLbs ==
    /\ env_lbs' = Some(populate_lbs(env_lbs))
    /\ lbQueries' = lbQueries + (IF lbs_cached(env_lbs) THEN 0 ELSE 1)

\* the effect of current_instance(): both populate calls, then the scan
CurrentInstance ==
    /\ PopulateInstances(Tags(None, None, None), None, TRUE, <<>>)
    /\ PopulateLbs
    /\ cur' = current_instance(env_instances'[1], host_string)

\* a call of populate_instances with any arguments
CallPopulateInstances ==
    /\ pc = "idle"
    /\ calls < MaxCalls
    /\ \E tags \in TagArgs, lb \in LbArgs, exclude_disabled \in BOOLEAN,
          subenets \in SubnetArgs :
           PopulateInstances(tags, lb, exclude_disabled, subenets)
    /\ calls' = calls + 1
    /\ outcome' = "returned"
    /\ WaitLocalsGone
    /\ UNCHANGED <<healthVars, envVars, env_lbs, env_hosts, pc, cur, lbQueries>>
    /\ UNCHANGED <<taskVars, resolveVars>>

\* a call of populate_lbs
CallPopulateLbs ==
    /\ pc = "idle"
    /\ calls < MaxCalls
    /\ PopulateLbs
    /\ calls' = calls + 1
    /\ outcome' = "returned"
    /\ WaitLocalsGone
    /\ UNCHANGED <<healthVars, envVars, env_instances, env_hosts, pc, cur, last,
                   instQueries>>
    /\ UNCHANGED <<taskVars, resolveVars>>

\* a call of current_instance
CallCurrentInstance ==
    /\ pc = "idle"
    /\ calls < MaxCalls
    /\ CurrentInstance
    /\ calls' = calls + 1
    /\ outcome' = "returned"
    /\ WaitLocalsGone
    /\ UNCHANGED <<healthVars, envVars, env_hosts, pc>>
    /\ UNCHANGED <<taskVars, resolveVars>>

\* the effect of hosts(env, lb, subenets) on api.env, and how it ends
hosts(env, hint, subenets) ==
    /\ PopulateLbs
    /\ LET resolved == IF hint # None
                       THEN resolve_lb(env_lbs'[1], hint[1])
                       ELSE Return(None)
       IN  IF resolved.exc # "none"
           THEN /\ pc' = "raised"
                /\ outcome' = resolved.exc
                /\ UNCHANGED <<env_instances, env_hosts, last, instQueries>>
           ELSE /\ PopulateInstances(Tags(None, None, env), resolved.value, TRUE, subenets)
                /\ IF \E i \in Elems(env_instances'[1]) : i.interfaces = <<>>
                   THEN /\ env_hosts' = env_hosts
                        /\ pc' = "raised"
                        /\ outcome' = "IndexError"
                   ELSE /\ env_hosts' =
                               [k \in 1..Len(env_instances'[1]) |->
                                   env_instances'[1][k].interfaces[1].private_ip_address]
                        /\ pc' = "idle"
                        /\ outcome' = "returned"
    /\ WaitLocalsGone
    /\ UNCHANGED <<healthVars, envVars, cur, resolveVars>>

\* the hosts task
HostsTask ==
    /\ pc = "idle"
    /\ calls < MaxCalls
    /\ calls' = calls + 1
    /\ \E env \in EnvArgs, hint \in HintArgs, subenets \in SubnetArgs :
          hosts(env, hint, subenets)
    /\ UNCHANGED taskVars

\* the load balancers to wait on, with a host nothing matches waiting on
\* every cached load balancer
wait_lbs_all(cached_lbs, instance) ==
    Some(IF instance = None THEN cached_lbs ELSE instance_lbs(cached_lbs, instance[1]))

\* instance = current_instance(); if instance is None: return;
\* lbs = instance_lbs(instance). None stands for the early return
wait_lbs(cached_lbs, instance) ==
    IF instance = None THEN None ELSE Some(instance_lbs(cached_lbs, instance[1]))

\* the deadline test with one more poll interval of grace
deadline_passed_late(now, deadline) == now > deadline + WAIT_POLL_FREQ_SECS

\* if time.time() > et
deadline_passed(now, deadline) == now > deadline

\* wait_xx_lbs(timeout, health) up to the while loop
WaitStart(fn, t) ==
    /\ pc = "idle"
    /\ calls < MaxCalls
    /\ calls' = calls + 1
    /\ CurrentInstance
    /\ wfn' = fn
    /\ timeout' = t
    /\ polls' = 0
    /\ sleeps' = 0
    /\ polled' = <<>>
    /\ satisfied' = {}
    /\ IF wait_lbs(env_lbs'[1], cur') = None
       THEN /\ lbs' = <<>>
            /\ et' = et
            /\ pc' = "idle"
            /\ outcome' = "returned"
       ELSE /\ lbs' = wait_lbs(env_lbs'[1], cur')[1]
            /\ et' = clock + t
            /\ pc' = "poll"
            /\ outcome' = "none"
    /\ UNCHANGED <<healthVars, envVars, env_hosts, clock, resolveVars>>

\* a call of wait_in_lbs(timeout)
WaitInLbs ==
    /\ \E t \in Timeouts : WaitStart("in_service", t)
    /\ UNCHANGED taskVars

\* a call of wait_out_lbs(timeout)
WaitOutLbs ==
    /\ \E t \in Timeouts : WaitStart("out_of_service", t)
    /\ UNCHANGED taskVars

\* the list comprehension keeping the load balancers whose health satisfied
pending_after_inverted(fn, pending, h) ==
    LET idx == SelectSeq([k \in 1..Len(pending) |-> k],
                         LAMBDA k : health(fn, h[k]).value)
    IN  [j \in 1..Len(idx) |-> pending[idx[j]]]

\* the list comprehension with every load balancer kept
pending_after_keep_all(fn, pending, h) == pending

\* [lb for lb in lbs if not health(...)] when no call of health raises;
\* h[k] is the health result of the k-th load balancer of the list
pending_after(fn, pending, h) ==
    LET idx == SelectSeq([k \in 1..Len(pending) |-> k],
                         LAMBDA k : ~health(fn, h[k]).value)
    IN  [j \in 1..Len(idx) |-> pending[idx[j]]]

\* one pass of the while loop body up to the sleep
Poll ==
    /\ pc = "poll"
    /\ \E h \in [1..Len(lbs) -> PollResults], dt \in PollSecs :
          LET raising == {k \in 1..Len(lbs) : health(wfn, h[k]).exc # "none"}
              queried(n) == [k \in 1..n |-> [lb |-> lbs[k].name, states |-> h[k]]]
          IN  /\ polls' = polls + 1
              /\ clock' = clock + dt
              /\ IF raising # {}
                 THEN LET first == CHOOSE k \in raising : \A j \in raising : k <= j
                      IN  /\ polled' = queried(first)
                          /\ pc' = "raised"
                          /\ outcome' = health(wfn, h[first]).exc
                          /\ UNCHANGED <<lbs, satisfied>>
                 ELSE /\ polled' = queried(Len(lbs))
                      /\ lbs' = pending_after(wfn, lbs, h)
                      /\ satisfied' = satisfied \cup
                             {lbs[k].name : k \in {j \in 1..Len(lbs) : health(wfn, h[j]).value}}
                      /\ IF lbs' = <<>>
                         THEN pc' = "idle" /\ outcome' = "returned"
                         ELSE IF deadline_passed(clock', et)
                         THEN pc' = "raised" /\ outcome' = "Timeout"
                         ELSE pc' = "sleep" /\ outcome' = "none"
    /\ UNCHANGED <<healthVars, envVars, cacheVars, wfn, timeout, et, sleeps>>
    /\ UNCHANGED <<calls, last, cur, instQueries, lbQueries>>
    /\ UNCHANGED <<taskVars, resolveVars>>

\* time.sleep(ctx.WAIT_POLL_FREQ_SECS)
Sleep ==
    /\ pc = "sleep"
    /\ clock' = clock + WAIT_POLL_FREQ_SECS
    /\ sleeps' = sleeps + 1
    /\ pc' = "poll"
    /\ UNCHANGED <<healthVars, envVars, cacheVars, wfn, timeout, lbs, et, polls,
                   polled, satisfied>>
    /\ UNCHANGED <<calls, last, cur, outcome, instQueries, lbQueries>>
    /\ UNCHANGED <<taskVars, resolveVars>>

Next ==
    \/ CallPopulateInstances
    \/ CallPopulateLbs
    \/ CallCurrentInstance
    \/ HostsTask
    \/ WaitInLbs
    \/ WaitOutLbs
    \/ Poll
    \/ Sleep

Spec == Init /\ [][Next]_vars

----------------------------------------------------------------------------
(* The tasks.  A task runs its remote commands with api.run and enters the *)
(* wait loops through svc_enable, svc_disable, wait_in_lbs and             *)
(* wait_out_lbs; an exception ends the task and the invocation.  The       *)
(* tasks of one invocation run one after the other on the same caches.     *)
(* A command is taken to exit with status 0 unless its task is there to    *)
(* test the status (shells).                                               *)

\* the raw flag and wait arguments tried
FlagArgs == {"t", "f", "T", "x"}

WaitArgs == {"t", "f", "5", "x"}

\* str.lower on the arguments tried
lower(flag) == IF flag = "T" THEN "t" ELSE IF flag = "F" THEN "f" ELSE flag

\* int(raw) on the arguments tried
int(raw) ==
    IF raw = "0" THEN Return(0)
    ELSE IF raw = "5" THEN Return(5)
    ELSE Raise("ValueError")

parse_flag(flag) ==
    IF lower(flag) \in {"1", "t", "true"} THEN Return(TRUE)
    ELSE IF lower(flag) \in {"0", "f", "false"} THEN Return(FALSE)
    ELSE Raise("ValueError")

parse_wait(raw) ==
    IF int(raw).exc = "none" THEN int(raw)
    ELSE IF parse_flag(raw).exc # "none" THEN Raise(parse_flag(raw).exc)
    ELSE IF parse_flag(raw).value THEN Return(WAIT_DEFAULT_TIMEOUT_SECS)
    ELSE Return(0)

\* the commands handed to api.run: the text, and what is formatted into it
Run(command, name) == [run |-> command, name |-> name]

\* a command with several values formatted into it
RunArgs(command, args) == [run |-> command, args |-> args]

\* a command about a package file; the file name is a tuple of characters
RunFile(command, file_name) == [run |-> command, file |-> file_name]

ServiceStartSleep == Run("service start; sleep", "")

ServiceStart == Run("service start", "")

ServiceRestartSleep == Run("service restart; sleep", "")

CreateHealthFile == Run("echo -n > HEALTH_FILE", "")

RemoveHealthFile == Run("[ ! -f HEALTH_FILE ] || rm HEALTH_FILE", "")

\* the branch, commit and version arguments tried
BranchArgs == {"release"}

CommitArgs == {"HEAD", "abc"}

VersionArgs == {"1.0"}

\* what `git branch --contains {} | grep {} | wc -l` prints
ContainsCounts == {0, 1}

\* what `git rev-parse HEAD` prints
RevParseHead == "abc"

\* a function that ran these commands and returned, or raised after them
Ran(commands) == [exc |-> "none", cmds |-> commands]

RanUntil(commands, e) == [exc |-> e, cmds |-> commands]

\* code_sync; count is what the --contains pipeline prints.  `hash` in
\* `if hash != 'HEAD'` is the builtin function, so the test is always true
code_sync(branch, commit, clear_cached, count) ==
    LET checked == << Run("git fetch", ""),
                      Run("git checkout", branch),
                      RunArgs("git branch --contains {} | grep {} | wc -l",
                              <<commit, branch>>) >>
    IN  IF parse_flag(clear_cached).exc # "none"
        THEN RanUntil(<<>>, parse_flag(clear_cached).exc)
        ELSE IF count = 0
        THEN RanUntil(checked, "ValueError")
        ELSE Ran(checked \o <<Run("git checkout", commit)>>
                 \o (IF parse_flag(clear_cached).value
                     THEN <<Run("find -type f -regex .pyc -exec rm -rf", "")>>
                     ELSE <<>>))

code_stat == <<Run("echo git rev-parse --abbrev-ref HEAD:git rev-parse --verify HEAD", "")>>

shells == <<Run("[ -z pgrep -f python.*shell -u deploy ]", "")>>

migrate_db == <<Run("./scripts/migrate-db upgrade", "")>>

svc_reload == <<Run("service reload", "")>>

svc_stat ==
    code_stat \o <<Run("service status", ""), Run("curl 127.0.01:5000/health", "")>>

\* for name in workers or ctx.WORKERS
worker_names(named, configured) == IF named # <<>> THEN named ELSE configured

\* one command per worker name
worker_commands(command, names) == [k \in 1..Len(names) |-> Run(command, names[k])]

wrk_stat(names) == code_stat \o worker_commands("supervisorctl status; sleep 1", names)

wrk_start(names) == worker_commands("supervisorctl start; sleep 1", names)

wrk_stop(names) == worker_commands("supervisorctl stop; sleep 1", names)

wrk_restart(names) == worker_commands("supervisorctl stop; sleep 1", names)

\* the output of fpm: without a quote, and naming the package between quotes
RvOutputs == { <<"e">>, <<"c", "\"", "p", "\"", "}">> }

\* the file names given to pkg_publish
FileArgs == { <<"p">> }

\* the publish argument: the default False, or a string of the command line
PublishArgs == {None, Some(""), Some("f")}

\* `if publish:`
truthy(publish) == publish # None /\ publish[1] # ""

\* ctx.AWS_ACCESS_KEY_ID and ctx.AWS_SECRET_ACCESS_KEY: unset, or set
KeyConfigs == {None, Some("key")}

\* s.split(sep) for a one-character sep
RECURSIVE split(_, _)
split(s, sep) ==
    IF \A k \in 1..Len(s) : s[k] # sep
    THEN <<s>>
    ELSE LET at == CHOOSE k \in 1..Len(s) :
                       s[k] = sep /\ \A j \in 1..(k - 1) : s[j] # sep
         IN  <<SubSeq(s, 1, at - 1)>> \o split(SubSeq(s, at + 1, Len(s)), sep)

\* rv.split('"')[-2]
file_name(rv) ==
    IF Len(split(rv, "\"")) < 2
    THEN Raise("IndexError")
    ELSE Return(split(rv, "\"")[Len(split(rv, "\"")) - 1])

pkg_publish(file, access_key, secret_key) ==
    IF access_key = None \/ secret_key = None
    THEN RanUntil(<<>>, "Exception")
    ELSE Ran(<<RunFile("deb-s3 publish", file)>>)

\* pkg_build and pkg_build_venv after code_sync returned; remove and build
\* are the texts of their rm and fpm commands
pkg_build_from(remove, build, version, branch, commit, publish, rv, access_key, secret_key) ==
    LET head == IF commit = "HEAD" THEN <<Run("git rev-parse HEAD", "")>> ELSE <<>>
        built == IF commit = "HEAD" THEN RevParseHead ELSE commit
        ran == head \o <<Run(remove, version),
                         RunArgs(build, <<version, branch, built>>)>>
        published == pkg_publish(file_name(rv).value, access_key, secret_key)
    IN  IF file_name(rv).exc # "none" THEN RanUntil(ran, file_name(rv).exc)
        ELSE IF ~truthy(publish) THEN Ran(ran)
        ELSE [exc |-> published.exc, cmds |-> ran \o published.cmds]

pkg_build(version, branch, commit, publish, count, rv, access_key, secret_key) ==
    LET synced == code_sync(branch, commit, "t", count)
        built == pkg_build_from("[ ! -f {}_1.{}_all.deb ] || rm -f", "fpm -s dir -t deb",
                                version, branch, commit, publish, rv,
                                access_key, secret_key)
    IN  IF synced.exc # "none" THEN synced
        ELSE [exc |-> built.exc, cmds |-> synced.cmds \o built.cmds]

pkg_build_venv(version, branch, commit, publish, count, rv, access_key, secret_key) ==
    LET synced == code_sync(branch, commit, "t", count)
        built == pkg_build_from("[ ! -f {}-venv_{}_amd64.deb ] || rm -f",
                                "fpm -s python -t deb",
                                version, branch, commit, publish, rv,
                                access_key, secret_key)
    IN  IF synced.exc # "none" THEN synced
        ELSE [exc |-> built.exc, cmds |-> synced.cmds \o built.cmds]

\* a stretch of a task: the commands run, then a wait with the predicate fn
\* and the raw wait argument, or no wait when fn is "none"; parse_first
\* tells whether the argument is parsed before the commands are run
Step(parse_first, commands, fn, raw) ==
    [parse_first |-> parse_first, cmds |-> commands, fn |-> fn, raw |-> raw]

svc_enable(wait) == Step(FALSE, <<CreateHealthFile>>, "in_service", wait)

svc_disable(wait) == Step(TRUE, <<RemoveHealthFile>>, "out_of_service", wait)

\* svc_start after the flag: svc_enable(); wait_in_lbs(parse_wait(wait))
svc_start(wait) == << svc_enable("t"), Step(TRUE, <<>>, "in_service", wait) >>

\* svc_stop after the flag: svc_disable(); wait_out_lbs(parse_wait(wait))
svc_stop(wait) == << svc_disable("t"), Step(TRUE, <<>>, "out_of_service", wait) >>

\* svc_restart with the restart issued before the out-of-service wait
svc_restart_ungated ==
    << Step(TRUE, <<RemoveHealthFile, ServiceRestartSleep>>, "out_of_service", "t"),
       svc_enable("t") >>

\* svc_restart: svc_disable(); api.run(restart); svc_enable()
svc_restart ==
    << svc_disable("t"),
       Step(FALSE, <<ServiceRestartSleep>> \o svc_enable("t").cmds,
            svc_enable("t").fn, svc_enable("t").raw) >>

\* svc_up once the code is synced and restart is true: svc_restart(); svc_stat()
svc_up == svc_restart \o << Step(FALSE, svc_stat, "none", "") >>

\* the task arguments when the task keeps none for a later step
NoArgs == [skip |-> "", wait |-> ""]

\* the steps of the task that is running
task_steps ==
    IF task = "svc_start" THEN svc_start(targ.wait)
    ELSE IF task = "svc_stop" THEN svc_stop(targ.wait)
    ELSE IF task = "svc_restart" THEN svc_restart
    ELSE IF task = "svc_up" THEN svc_up
    ELSE IF task = "svc_enable" THEN <<svc_enable(targ.wait)>>
    ELSE IF task = "svc_disable" THEN <<svc_disable(targ.wait)>>
    ELSE <<>>

\* fabric runs the tasks of the command line in order: the next one starts
\* when the one before has returned
TaskMayStart ==
    /\ pc = "idle"
    /\ wfn = "none"
    /\ ~(tpc >= 1 /\ tpc < Len(task_steps))
    /\ calls < MaxCalls

\* the task returns or raises without entering a wait
TaskEnds(ran, how) ==
    /\ cmds' = ran
    /\ pc' = IF how = "returned" THEN "idle" ELSE "raised"
    /\ outcome' = how
    /\ WaitLocalsGone
    /\ UNCHANGED <<healthVars, envVars, cacheVars, resolveVars>>
    /\ UNCHANGED <<last, cur, instQueries, lbQueries>>

\* one step of a task: its commands, then the wait up to the while loop
RunStep(ran, step) ==
    IF step.fn = "none"
    THEN TaskEnds(ran \o step.cmds, "returned") /\ UNCHANGED calls
    ELSE IF parse_wait(step.raw).exc # "none"
    THEN /\ TaskEnds(IF step.parse_first THEN ran ELSE ran \o step.cmds,
                     parse_wait(step.raw).exc)
         /\ UNCHANGED calls
    ELSE /\ cmds' = ran \o step.cmds
         /\ WaitStart(step.fn, parse_wait(step.raw).value)

\* a task that runs commands only: the names it iterates over and how the
\* function that ran the commands ended
CommandTask(name, names, ended) ==
    /\ task' = name
    /\ tpc' = 0
    /\ targ' = NoArgs
    /\ workers' = names
    /\ calls' = calls + 1
    /\ TaskEnds(ended.cmds, IF ended.exc = "none" THEN "returned" ELSE ended.exc)

Who ==
    /\ TaskMayStart
    /\ CommandTask("who", <<>>, Ran(<<>>))

CodeSync ==
    /\ TaskMayStart
    /\ \E branch \in BranchArgs, commit \in CommitArgs, clear_cached \in FlagArgs,
          count \in ContainsCounts :
           CommandTask("code_sync", <<>>, code_sync(branch, commit, clear_cached, count))

CodeStat ==
    /\ TaskMayStart
    /\ CommandTask("code_stat", <<>>, Ran(code_stat))

\* the test command exits non-zero when a shell is running, and api.run
\* then aborts the invocation (warn_only is not set)
Shells ==
    /\ TaskMayStart
    /\ \E running \in BOOLEAN :
        CommandTask("shells", <<>>,
                    IF running THEN RanUntil(shells, "SystemExit") ELSE Ran(shells))

MigrateDb ==
    /\ TaskMayStart
    /\ CommandTask("migrate_db", <<>>, Ran(migrate_db))

SvcReload ==
    /\ TaskMayStart
    /\ CommandTask("svc_reload", <<>>, Ran(svc_reload))

SvcStat ==
    /\ TaskMayStart
    /\ CommandTask("svc_stat", <<>>, Ran(svc_stat))

SvcStart(skip_enable, wait) ==
    /\ TaskMayStart
    /\ task' = "svc_start"
    /\ targ' = [skip |-> skip_enable, wait |-> wait]
    /\ workers' = <<>>
    /\ LET ran == <<ServiceStartSleep, ServiceStart>>
       IN  IF parse_flag(skip_enable).exc # "none"
           THEN TaskEnds(ran, parse_flag(skip_enable).exc) /\ tpc' = 0 /\ calls' = calls + 1
           ELSE IF parse_flag(skip_enable).value
           THEN TaskEnds(ran, "returned") /\ tpc' = 0 /\ calls' = calls + 1
           ELSE RunStep(ran, svc_start(wait)[1]) /\ tpc' = 1

SvcStop(skip_disable, wait) ==
    /\ TaskMayStart
    /\ task' = "svc_stop"
    /\ targ' = [skip |-> skip_disable, wait |-> wait]
    /\ workers' = <<>>
    /\ IF parse_flag(skip_disable).exc # "none"
       THEN TaskEnds(<<>>, parse_flag(skip_disable).exc) /\ tpc' = 0 /\ calls' = calls + 1
       ELSE IF parse_flag(skip_disable).value
       THEN TaskEnds(<<>>, "returned") /\ tpc' = 0 /\ calls' = calls + 1
       ELSE RunStep(<<>>, svc_stop(wait)[1]) /\ tpc' = 1

SvcRestart ==
    /\ TaskMayStart
    /\ task' = "svc_restart"
    /\ targ' = NoArgs
    /\ workers' = <<>>
    /\ RunStep(<<>>, svc_restart[1])
    /\ tpc' = 1

SvcEnable(wait) ==
    /\ TaskMayStart
    /\ task' = "svc_enable"
    /\ targ' = [skip |-> "", wait |-> wait]
    /\ workers' = <<>>
    /\ RunStep(<<>>, svc_enable(wait))
    /\ tpc' = 1

SvcDisable(wait) ==
    /\ TaskMayStart
    /\ task' = "svc_disable"
    /\ targ' = [skip |-> "", wait |-> wait]
    /\ workers' = <<>>
    /\ RunStep(<<>>, svc_disable(wait))
    /\ tpc' = 1

SvcUp(branch, commit, restart, count) ==
    /\ TaskMayStart
    /\ task' = "svc_up"
    /\ targ' = NoArgs
    /\ workers' = <<>>
    /\ LET synced == code_sync(branch, commit, "t", count)
       IN  IF parse_flag(restart).exc # "none"
           THEN TaskEnds(<<>>, parse_flag(restart).exc) /\ tpc' = 0 /\ calls' = calls + 1
           ELSE IF synced.exc # "none"
           THEN TaskEnds(synced.cmds, synced.exc) /\ tpc' = 0 /\ calls' = calls + 1
           ELSE IF parse_flag(restart).value
           THEN RunStep(synced.cmds, svc_up[1]) /\ tpc' = 1
           ELSE /\ TaskEnds(synced.cmds \o svc_reload \o svc_stat, "returned")
                /\ tpc' = 0
                /\ calls' = calls + 1

\* the task that waited returns to fabric: the frame of wait_xx_lbs is gone
TaskReturns ==
    /\ pc = "idle"
    /\ wfn # "none"
    /\ ~(tpc >= 1 /\ tpc < Len(task_steps))
    /\ WaitLocalsGone
    /\ UNCHANGED <<healthVars, envVars, cacheVars, taskVars, resolveVars>>
    /\ UNCHANGED <<pc, calls, last, cur, outcome, instQueries, lbQueries>>

\* the wait a task was in has returned: the task goes on
TaskContinue ==
    /\ pc = "idle"
    /\ tpc >= 1
    /\ tpc < Len(task_steps)
    /\ RunStep(cmds, task_steps[tpc + 1])
    /\ tpc' = tpc + 1
    /\ UNCHANGED <<task, targ, workers>>

\* the worker names given to a task, and the values of ctx.WORKERS
WorkerArgs == {<<>>, <<"w1">>, <<"w2", "w1">>}

WorkerConfigs == {<<>>, <<"w1", "w2">>}

\* for name in workers or ctx.WORKERS: api.run('supervisorctl <verb> name; sleep 1')
WorkerTask(name, command, named, configured) ==
    CommandTask(name, worker_names(named, configured),
                Ran(worker_commands(command, worker_names(named, configured))))

WrkStart ==
    /\ TaskMayStart
    /\ \E named \in WorkerArgs, configured \in WorkerConfigs :
        WorkerTask("wrk_start", "supervisorctl start; sleep 1", named, configured)

WrkStop ==
    /\ TaskMayStart
    /\ \E named \in WorkerArgs, configured \in WorkerConfigs :
        WorkerTask("wrk_stop", "supervisorctl stop; sleep 1", named, configured)

WrkRestart ==
    /\ TaskMayStart
    /\ \E named \in WorkerArgs, configured \in WorkerConfigs :
        WorkerTask("wrk_restart", "supervisorctl stop; sleep 1", named, configured)

WrkStat ==
    /\ TaskMayStart
    /\ \E named \in WorkerArgs, configured \in WorkerConfigs :
        CommandTask("wrk_stat", worker_names(named, configured),
                    Ran(wrk_stat(worker_names(named, configured))))

\* wrk_up: code_sync(branch, commit); wrk_restart(); wrk_stat()
WrkUp ==
    /\ TaskMayStart
    /\ \E branch \in BranchArgs, commit \in CommitArgs, count \in ContainsCounts,
          configured \in WorkerConfigs :
        LET synced == code_sync(branch, commit, "t", count)
        IN  CommandTask("wrk_up", configured,
                        IF synced.exc # "none" THEN synced
                        ELSE Ran(synced.cmds \o wrk_restart(configured)
                                 \o wrk_stat(configured)))

\* the inputs of a package build; an input the run does not get to read
\* is left at one value
PkgRuns ==
    { r \in [commit : CommitArgs, publish : PublishArgs, count : ContainsCounts,
             rv : RvOutputs, access_key : KeyConfigs, secret_key : KeyConfigs] :
        /\ r.count = 0 => r.rv = <<"e">>
        /\ file_name(r.rv).exc # "none" => r.publish = None
        /\ ~truthy(r.publish) => r.access_key = None /\ r.secret_key = None }

PkgBuild ==
    /\ TaskMayStart
    /\ \E version \in VersionArgs, branch \in BranchArgs, r \in PkgRuns :
        CommandTask("pkg_build", <<>>,
                    pkg_build(version, branch, r.commit, r.publish, r.count, r.rv,
                              r.access_key, r.secret_key))

PkgBuildVenv ==
    /\ TaskMayStart
    /\ \E version \in VersionArgs, branch \in BranchArgs, r \in PkgRuns :
        CommandTask("pkg_build_venv", <<>>,
                    pkg_build_venv(version, branch, r.commit, r.publish, r.count, r.rv,
                                   r.access_key, r.secret_key))

PkgPublish ==
    /\ TaskMayStart
    /\ \E file \in FileArgs, access_key \in KeyConfigs, secret_key \in KeyConfigs :
        CommandTask("pkg_publish", <<>>, pkg_publish(file, access_key, secret_key))

\* the env and lb arguments tried with the tasks that select hosts, and the
\* values of ctx.AWS_API_SUBNET_IDS and ctx.AWS_WORKER_SUBNET_IDS
SelectEnvArgs == {None, Some("prod")}

SelectHintArgs == {None, Some(<<"a", "b">>), Some(<<"c">>)}

ApiSubnetConfigs == {<<>>, <<"s1">>}

WorkerSubnetConfigs == {<<>>, <<"s2">>}

\* a task that selects hosts: hosts itself, svc_hosts or wrk_hosts
SelectTask(name, env, hint, subenets) ==
    /\ calls < MaxCalls
    /\ calls' = calls + 1
    /\ hosts(env, hint, subenets)
    /\ task' = name
    /\ tpc' = 0
    /\ targ' = NoArgs
    /\ cmds' = <<>>
    /\ workers' = <<>>

\* hosts run ahead of other tasks, as in `fab hosts:lb=... code_sync`
SelectHosts ==
    /\ TaskMayStart
    /\ \E env \in SelectEnvArgs, hint \in SelectHintArgs :
        SelectTask("hosts", env, hint, <<>>)

SvcHosts ==
    /\ TaskMayStart
    /\ \E env \in SelectEnvArgs, hint \in SelectHintArgs, configured \in ApiSubnetConfigs :
        SelectTask("svc_hosts", env, hint, configured)

WrkHosts ==
    /\ TaskMayStart
    /\ \E env \in SelectEnvArgs, hint \in SelectHintArgs,
          configured \in WorkerSubnetConfigs :
        SelectTask("wrk_hosts", env, hint, configured)

\* the host strings of the task runs: a host name that embeds the dashed
\* address of i-2, and a host nothing matches
TaskHosts == { <<"x", "1", "-", "3">>, <<"z">> }

\* one invocation of fab with service, worker, code and package tasks
SvcInit ==
    /\ HealthIdle
    /\ provider = << <<ProviderInstance1(None)>>,
                     <<ProviderInstance2("s2", None, OneInterface)>> >>
    /\ host_string \in TaskHosts
    /\ SessionIdle
    /\ WaitIdle
    /\ TaskIdle
    /\ ResolveIdle

SvcNext ==
    \/ SelectHosts
    \/ Who
    \/ CodeSync
    \/ CodeStat
    \/ Shells
    \/ MigrateDb
    \/ SvcHosts
    \/ \E skip_enable \in FlagArgs, wait \in WaitArgs : SvcStart(skip_enable, wait)
    \/ \E skip_disable \in FlagArgs, wait \in WaitArgs : SvcStop(skip_disable, wait)
    \/ SvcReload
    \/ SvcRestart
    \/ \E branch \in BranchArgs, commit \in CommitArgs, restart \in FlagArgs,
          count \in ContainsCounts : SvcUp(branch, commit, restart, count)
    \/ SvcStat
    \/ \E wait \in WaitArgs : SvcEnable(wait)
    \/ \E wait \in WaitArgs : SvcDisable(wait)
    \/ TaskContinue
    \/ TaskReturns
    \/ WrkHosts
    \/ WrkUp
    \/ WrkStat
    \/ WrkStart
    \/ WrkStop
    \/ WrkRestart
    \/ PkgBuild
    \/ PkgBuildVenv
    \/ PkgPublish
    \/ Poll
    \/ Sleep

SpecSvc == SvcInit /\ [][SvcNext]_vars

----------------------------------------------------------------------------
(* C1: in_service is satisfied exactly when the result is non-empty and    *)
(* its first entry is 'InService'; otherwise it is unsatisfied; it never   *)
(* raises.                                                                  *)
C1_InServiceIffFirstInService ==
    hfn = "in_service" =>
        /\ hres.exc = "none"
        /\ hres.value = (Len(hstates) > 0 /\ hstates[1] = "InService")

(* C3: out_of_service is satisfied exactly when the result is empty or its *)
(* first entry is 'OutOfService'; a non-empty result whose first entry is  *)
(* 'InService' is unsatisfied.                                              *)
C3_OutOfServiceIffEmptyOrOut ==
    hfn = "out_of_service" =>
        /\ hres.exc = "none"
        /\ hres.value = (Len(hstates) = 0 \/ hstates[1] = "OutOfService")
        /\ (Len(hstates) > 0 /\ hstates[1] = "InService" => hres.value = FALSE)

\* out_of_service was applied to a non-empty result that starts with
\* 'OutOfService' and continues, and was satisfied
C3_Witness ==
    /\ hfn = "out_of_service"
    /\ Len(hstates) > 1
    /\ hstates[1] = "OutOfService"
    /\ hres = Return(TRUE)

----------------------------------------------------------------------------
\* a is a prefix of b
C6_IsPrefixOf(a, b) ==
    /\ Len(a) <= Len(b)
    /\ \A k \in 1..Len(a) : a[k] = b[k]

\* the address with every '.' replaced by '-' occurs in host
C6_DashedAddressIn(address, host) ==
    \E off \in 0..(Len(host) - Len(address)) :
        \A k \in 1..Len(address) :
            host[off + k] = (IF address[k] = "." THEN "-" ELSE address[k])

\* the three conditions as the claim states them
C6_ClaimedMatch(i, host) ==
    \/ i.tags.Name # None /\ C6_IsPrefixOf(i.tags.Name[1], host)
    \/ C6_IsPrefixOf(i.private_ip_address, host)
    \/ C6_DashedAddressIn(i.private_ip_address, host)

\* the three conditions with the prefix tests the other way round
C6_AmendedMatch(i, host) ==
    \/ i.tags.Name # None /\ C6_IsPrefixOf(host, i.tags.Name[1])
    \/ C6_IsPrefixOf(host, i.private_ip_address)
    \/ C6_DashedAddressIn(i.private_ip_address, host)

(* C6 as stated: current_instance returns the first cached instance whose  *)
(* Name tag is a prefix of the host string, or whose private address is a  *)
(* prefix of the host string, or whose dashed private address is a         *)
(* substring of the host string; None exactly when there is none.          *)
C6_FirstWithPrefixOfHost ==
    outcome = "returned" =>
        LET list == env_instances[1]
            hits == {k \in 1..Len(list) : C6_ClaimedMatch(list[k], host_string)}
        IN  /\ (cur = None) <=> (hits = {})
            /\ cur # None =>
                   \E k \in hits : cur[1] = list[k] /\ \A j \in hits : k <= j

(* C6 amended: current_instance returns the first cached instance such     *)
(* that the host string is a prefix of its Name tag, or the host string is *)
(* a prefix of its private address, or its dashed private address is a     *)
(* substring of the host string; None exactly when there is none.          *)
C6_FirstWithHostAsPrefix ==
    outcome = "returned" =>
        LET list == env_instances[1]
            hits == {k \in 1..Len(list) : C6_AmendedMatch(list[k], host_string)}
        IN  /\ (cur = None) <=> (hits = {})
            /\ cur # None =>
                   \E k \in hits : cur[1] = list[k] /\ \A j \in hits : k <= j

\* the scan skipped the first instance and returned the second, whose Name
\* tag properly extends a non-empty host string and whose address does not match
C6_Witness ==
    /\ outcome = "returned"
    /\ Len(env_instances[1]) = 2
    /\ cur = Some(env_instances[1][2])
    /\ ~C6_AmendedMatch(env_instances[1][1], host_string)
    /\ host_string # <<>>
    /\ cur[1].tags.Name # None
    /\ Len(cur[1].tags.Name[1]) > Len(host_string)
    /\ C6_IsPrefixOf(host_string, cur[1].tags.Name[1])
    /\ ~C6_IsPrefixOf(host_string, cur[1].private_ip_address)
    /\ ~C6_DashedAddressIn(cur[1].private_ip_address, host_string)

----------------------------------------------------------------------------
\* the names of a list of load balancers
C_Names(list) == {list[k].name : k \in 1..Len(list)}

\* the target conditions as the specification words them
C_InServiceCondition(states) == Len(states) > 0 /\ states[1] = "InService"

C_OutOfServiceCondition(states) == Len(states) = 0 \/ states[1] = "OutOfService"

C_Condition(fn, states) ==
    IF fn = "in_service" THEN C_InServiceCondition(states)
    ELSE C_OutOfServiceCondition(states)

(* C2: when every load balancer of the identified instance reports a       *)
(* result whose first entry is 'InService' on the first poll, wait_in_lbs  *)
(* has returned on that poll, for any timeout, without sleeping and        *)
(* without a timeout error.                                                *)
C2_InServiceReturnsOnFirstPoll ==
    ( /\ wfn = "in_service"
      /\ cur # None
      /\ polls = 1
      /\ \A k \in 1..Len(polled) : C_InServiceCondition(polled[k].states) )
    => (pc = "idle" /\ outcome = "returned" /\ sleeps = 0)

(* C4: a load balancer that returned an empty health result on the latest  *)
(* poll has left the pending list under wait_out_lbs; under wait_in_lbs it *)
(* is still pending and the wait has neither succeeded nor raised anything *)
(* but the timeout error.                                                  *)
C4_AbsentIsOutButNotIn ==
    \A k \in 1..Len(polled) :
        polled[k].states = <<>> =>
            /\ wfn = "out_of_service" =>
                   /\ polled[k].lb \notin C_Names(lbs)
                   /\ polled[k].lb \in satisfied
            /\ wfn = "in_service" =>
                   /\ polled[k].lb \in C_Names(lbs)
                   /\ outcome \in {"none", "Timeout"}

(* C5: with timeout = 0, once the first poll has left a load balancer      *)
(* unsatisfied the wait has raised the timeout error after one health      *)
(* query per load balancer and no sleep, whatever the clock read.  Stated  *)
(* for wait_out_lbs, whose predicate is as specified, so that a violation  *)
(* is one of the deadline check and not of in_service.                     *)
C5_ZeroTimeoutFailsWithoutSleeping ==
    ( /\ wfn = "out_of_service"
      /\ cur # None
      /\ timeout = 0
      /\ polls >= 1
      /\ \E k \in 1..Len(polled) : ~C_Condition(wfn, polled[k].states) )
    => /\ pc = "raised"
       /\ outcome = "Timeout"
       /\ polls = 1
       /\ sleeps = 0
       /\ Len(polled) = Len(instance_lbs(env_lbs[1], cur[1]))

(* C7: the provider is asked for the full instance inventory at most once  *)
(* and for the full load-balancer inventory at most once per invocation.   *)
C7_InventoryQueriedAtMostOnce ==
    instQueries <= 1 /\ lbQueries <= 1

\* instance i passes the tag, subnet and load-balancer filters of call c
C8_PassesOtherFilters(i, c) ==
    /\ \A k \in DOMAIN c.tags : c.tags[k] = None \/ i.tags[k] = c.tags[k]
    /\ c.subenets = <<>> \/ i.subnet_id \in Elems(c.subenets)
    /\ c.lb = None \/ i.id \in Elems(c.lb[1].instances[1])

(* C8: the list populate_instances returned holds no instance carrying the *)
(* disabled tag when exclude_disabled is true, and holds every disabled    *)
(* instance that passes the other filters when exclude_disabled is false.  *)
C8_DisabledExcludedUnlessAsked ==
    last.called =>
        /\ last.exclude_disabled =>
               \A i \in Elems(env_instances[1]) : i.tags[AWS_DISABLED_TAG] = None
        /\ ~last.exclude_disabled =>
               \A i \in UNION {Elems(provider[k]) : k \in 1..Len(provider)} :
                   (i.tags[AWS_DISABLED_TAG] # None /\ C8_PassesOtherFilters(i, last))
                       => i \in Elems(env_instances[1])

(* C9: the list a populate_instances call with a non-empty subnet          *)
(* allow-list returned holds no instance whose subnet is outside the list, *)
(* whatever was called before.                                             *)
C9_SubnetAllowListHolds ==
    (last.called /\ last.subenets # <<>>) =>
        \A i \in Elems(env_instances[1]) : i.subnet_id \in Elems(last.subenets)

(* C10: within one wait, a poll never queries a load balancer that         *)
(* satisfied the condition on an earlier poll, a satisfied load balancer   *)
(* is not pending, and from poll to poll the pending list only loses       *)
(* entries.                                                                *)
C10_SatisfiedNeverRepolled ==
    [][ /\ polls' = polls + 1 =>
               \A k \in 1..Len(polled') : polled'[k].lb \notin satisfied
        /\ satisfied' \cap C_Names(lbs') = {}
        /\ pc \in {"poll", "sleep"} =>
               /\ C_Names(lbs') \subseteq C_Names(lbs)
               /\ Len(lbs') <= Len(lbs)
               /\ satisfied \subseteq satisfied' ]_vars

\* a second poll of wait_out_lbs queried only the load balancer the first
\* poll had left pending, after the other one had satisfied the condition
C10_Witness ==
    /\ wfn = "out_of_service"
    /\ polls = 2
    /\ Cardinality(satisfied) = 1
    /\ Len(polled) = 1
    /\ polled[1].lb \notin satisfied
    /\ C_Names(lbs) = {polled[1].lb}

\* the load balancers the identified instance belongs to
C_InstanceLbs == instance_lbs(env_lbs[1], cur[1])

\* the load balancers the latest poll found not satisfying the predicate
C_UnsatisfiedOnLastPoll ==
    {polled[k].lb : k \in {j \in 1..Len(polled) : ~health(wfn, polled[j].states).value}}

(* C11: when a wait has ended with the timeout error, the load balancers   *)
(* named in the message are exactly those the last poll found not          *)
(* satisfying the predicate; none of them satisfied it on any poll of the  *)
(* wait, and every load balancer of the instance that never satisfied it   *)
(* is named, once.                                                         *)
C11_TimeoutNamesPending ==
    (wfn # "none" /\ outcome = "Timeout") =>
        /\ pc = "raised"
        /\ C_Names(lbs) = C_UnsatisfiedOnLastPoll
        /\ C_Names(lbs) \cap satisfied = {}
        /\ C_Names(C_InstanceLbs) \ satisfied = C_Names(lbs)
        /\ Cardinality(C_Names(lbs)) = Len(lbs)

\* wait_out_lbs timed out for an instance of two load balancers, one of
\* which had satisfied the predicate: the message names the other one only
C11_Witness ==
    /\ wfn = "out_of_service"
    /\ outcome = "Timeout"
    /\ Len(C_InstanceLbs) = 2
    /\ Cardinality(satisfied) = 1
    /\ Len(lbs) = 1
    /\ lbs[1].name \notin satisfied

(* C12: when current_instance returned None for the host string, the wait  *)
(* has returned with no health query, no sleep and no exception, whatever  *)
(* the timeout and the predicate.                                          *)
C12_AbsentInstanceIsNoOp ==
    (wfn # "none" /\ cur = None) =>
        /\ current_instance(env_instances[1], host_string) = None
        /\ pc = "idle"
        /\ outcome = "returned"
        /\ polls = 0
        /\ sleeps = 0
        /\ polled = <<>>
        /\ lbs = <<>>

\* wait_in_lbs(10) was called for a host string no instance matches
C12_Witness ==
    /\ wfn = "in_service"
    /\ timeout = 2 * WAIT_POLL_FREQ_SECS
    /\ cur = None
    /\ outcome = "returned"
    /\ env_lbs # None

(* C13: resolve_lb returns a cached load balancer whose name equals the    *)
(* hint when there is one, and raises ValueError for every hint that       *)
(* equals no cached name, a proper prefix or substring of a cached name    *)
(* included; it never returns a load balancer of another name.             *)
C13_ResolveExactOnly ==
    outcome # "none" =>
        /\ rhint \in C_Names(env_lbs[1]) =>
               /\ rres.exc = "none"
               /\ rres.lb # None
               /\ rres.lb[1] \in Elems(env_lbs[1])
               /\ rres.lb[1].name = rhint
        /\ rhint \notin C_Names(env_lbs[1]) =>
               /\ rres.exc = "ValueError"
               /\ rres.lb = None

\* a non-empty hint that is a proper prefix of a cached name, and so a proper
\* substring of it, and equals no cached name: ValueError
C13_Witness ==
    /\ outcome = "ValueError"
    /\ rhint # <<>>
    /\ rhint \notin C_Names(env_lbs[1])
    /\ \E n \in C_Names(env_lbs[1]) : startswith(n, rhint) /\ contains(n, rhint)

(* C14 as claimed: the time slept in a wait never exceeds its timeout.     *)
C14_SleptAtMostTimeout ==
    wfn # "none" => sleeps * WAIT_POLL_FREQ_SECS <= timeout

(* C14: a sleep is started only while the clock has not passed the         *)
(* deadline, so the time slept never exceeds the timeout by more than one  *)
(* poll interval, and the timeout error is raised only once the clock      *)
(* reads more than the deadline.                                           *)
C14_SleptAtMostTimeoutPlusInterval ==
    wfn # "none" =>
        /\ sleeps * WAIT_POLL_FREQ_SECS <= timeout + WAIT_POLL_FREQ_SECS
        /\ pc = "sleep" =>
               /\ clock <= et
               /\ sleeps * WAIT_POLL_FREQ_SECS <= timeout
        /\ outcome = "Timeout" => clock > et

\* timeout 10, poll interval 5, never satisfied, polls that take no time:
\* the timeout error came after three sleeps, 15 seconds after entry
C14_Witness ==
    /\ wfn = "out_of_service"
    /\ timeout = 2 * WAIT_POLL_FREQ_SECS
    /\ outcome = "Timeout"
    /\ sleeps = 3
    /\ polls = 4
    /\ clock = et + WAIT_POLL_FREQ_SECS

(* C15: wait_out_lbs with timeout 10 for an instance of one load balancer  *)
(* that reports InService on the first poll and OutOfService on the        *)
(* second has not failed after the first poll and has returned after the   *)
(* second with exactly one sleep; every wait returns on the poll at which  *)
(* the pending list becomes empty, and has then slept once per earlier     *)
(* poll.                                                                   *)
C15_ReturnsOnEmptyingPoll ==
    [][ /\ ( /\ wfn' = "out_of_service"
             /\ timeout' = 2 * WAIT_POLL_FREQ_SECS
             /\ cur' # None
             /\ Len(instance_lbs(env_lbs'[1], cur'[1])) = 1
             /\ polls' = 1
             /\ Len(polled') = 1
             /\ polled'[1].states = <<"InService">> ) =>
               pc' \in {"sleep", "poll"}
        /\ ( /\ wfn = "out_of_service"
             /\ timeout = 2 * WAIT_POLL_FREQ_SECS
             /\ cur # None
             /\ Len(C_InstanceLbs) = 1
             /\ polls = 1
             /\ Len(polled) = 1
             /\ polled[1].states = <<"InService">>
             /\ polls' = 2
             /\ Len(polled') = 1
             /\ polled'[1].states = <<"OutOfService">> ) =>
               /\ pc' = "idle"
               /\ outcome' = "returned"
               /\ sleeps' = 1
        /\ (polls' = polls + 1 /\ outcome' = "returned") =>
               /\ lbs' = <<>>
               /\ sleeps' = polls
               /\ \A k \in 1..Len(polled') : health(wfn, polled'[k].states).value
        /\ (polls' = polls + 1 /\ outcome' \notin {"IndexError"} /\ lbs' = <<>>) =>
               /\ pc' = "idle"
               /\ outcome' = "returned" ]_vars

\* scenario B has run: two polls, one sleep, returned
C15_Witness ==
    /\ wfn = "out_of_service"
    /\ timeout = 2 * WAIT_POLL_FREQ_SECS
    /\ cur # None
    /\ Len(C_InstanceLbs) = 1
    /\ polls = 2
    /\ sleeps = 1
    /\ polled = <<[lb |-> C_InstanceLbs[1].name, states |-> <<"OutOfService">>]>>
    /\ pc = "idle"
    /\ outcome = "returned"

(* C19: a wait that has ended has ended in success or in the timeout       *)
(* error, and the timeout error is raised only after a poll that queried   *)
(* every load balancer still pending.                                      *)
C19_EndsInSuccessOrTimeout ==
    (wfn # "none" /\ pc \in {"idle", "raised"}) =>
        /\ outcome \in {"returned", "Timeout"}
        /\ outcome = "Timeout" =>
               /\ polls >= 1
               /\ C_Names(lbs) \subseteq {polled[k].lb : k \in 1..Len(polled)}

(* C16: while svc_stop or svc_start runs with wait='f' on an identified    *)
(* host, every wait it has started, the one inside svc_disable or          *)
(* svc_enable included, has a timeout of 0, and the task has not slept     *)
(* between polls.                                                          *)
C16_NoWaitWhenWaitFalse ==
    ( /\ task \in {"svc_stop", "svc_start"}
      /\ targ.wait = "f"
      /\ wfn # "none"
      /\ cur # None ) =>
        /\ timeout = 0
        /\ sleeps = 0

\* the positions in the command list at which the command was issued
C_Issued(command) == {k \in 1..Len(cmds) : cmds[k] = command}

(* C17: when wrk_restart has returned, every worker it was to restart has  *)
(* been issued a stop command and, after it, a start or restart command.   *)
C17_StopThenStartEachWorker ==
    (task = "wrk_restart" /\ pc = "idle" /\ outcome = "returned") =>
        \A w \in Elems(workers) :
            \E i \in C_Issued(Run("supervisorctl stop; sleep 1", w)) :
                \E j \in C_Issued(Run("supervisorctl start; sleep 1", w))
                         \cup C_Issued(Run("supervisorctl restart; sleep 1", w)) :
                    i < j

(* C18: svc_restart, run as a task or by svc_up, issues the restart        *)
(* command only in a step that starts                                      *)
(* after the marker file was removed and the out-of-service wait returned  *)
(* (every load balancer of the identified instance satisfied, or no        *)
(* instance identified); when that wait has raised the timeout error, the  *)
(* task has ended and neither the restart command nor the marker-file      *)
(* creation has been issued; and the marker file is created only after     *)
(* the restart command.                                                    *)
C18_RestartGatedByOutWait ==
    [][ /\ ( /\ task' \in {"svc_restart", "svc_up"}
             /\ C_Issued(ServiceRestartSleep) = {}
             /\ ServiceRestartSleep \in Elems(cmds') ) =>
               /\ task = task'
               /\ RemoveHealthFile \in Elems(cmds)
               /\ wfn = "out_of_service"
               /\ pc = "idle"
               /\ outcome = "returned"
               /\ \/ cur = None
                  \/ /\ lbs = <<>>
                     /\ C_Names(C_InstanceLbs) \subseteq satisfied
        /\ ( /\ task' \in {"svc_restart", "svc_up"}
             /\ wfn' = "out_of_service"
             /\ outcome' = "Timeout" ) =>
               /\ pc' = "raised"
               /\ ServiceRestartSleep \notin Elems(cmds')
               /\ CreateHealthFile \notin Elems(cmds')
        /\ ( /\ task' \in {"svc_restart", "svc_up"}
             /\ CreateHealthFile \in Elems(cmds') ) =>
               \E i \in {k \in 1..Len(cmds') : cmds'[k] = ServiceRestartSleep} :
                   \A j \in {k \in 1..Len(cmds') : cmds'[k] = CreateHealthFile} : i < j
      ]_vars

\* svc_restart for an identified instance: the out-of-service wait polled,
\* slept and returned, then the restart and the marker-file creation followed
C18_Witness ==
    /\ task = "svc_restart"
    /\ cur # None
    /\ cmds = <<RemoveHealthFile, ServiceRestartSleep, CreateHealthFile>>
    /\ wfn = "in_service"
    /\ clock >= WAIT_POLL_FREQ_SECS

====
